---------------------------- MODULE Spec2Model ----------------------------
(***************************************************************************)
(* Model of the parking-data validator (scripts/validate-parking.js).      *)
(*                                                                         *)
(* JavaScript values that can sit in a slot field are modelled as records  *)
(* [t, neg, ip, fp, s]:                                                    *)
(*   t = "undefined" | "null" | "number" | "nan" | "inf" | "string"        *)
(*   a finite number is a sign and two digit sequences, the integer part   *)
(*   ip (no leading zero, empty for 0) and the fraction fp (no trailing    *)
(*   zero); "inf" carries its sign in neg; a string is the sequence s of   *)
(*   its characters. Digit sequences keep the arithmetic exact on the long *)
(*   numerals that string concatenation produces.                          *)
(* Not modelled: exponent/hex literals and surrounding whitespace in       *)
(* numeric strings, negative zero, booleans, and the rounding of doubles   *)
(* beyond 2^53.                                                            *)
(***************************************************************************)
EXTENDS Integers, Sequences, FiniteSets

---------------------------------------------------------------------------
(* Natural numbers as digit sequences, most significant digit first *)

RECURSIVE Strip(_)
Strip(ds) == IF ds # <<>> /\ ds[1] = 0 THEN Strip(Tail(ds)) ELSE ds

RECURSIVE StripRight(_)
StripRight(ds) ==
  IF ds # <<>> /\ ds[Len(ds)] = 0 THEN StripRight(SubSeq(ds, 1, Len(ds) - 1)) ELSE ds

RECURSIVE Zeros(_)
Zeros(k) == IF k <= 0 THEN <<>> ELSE <<0>> \o Zeros(k - 1)

RECURSIVE NatDigits(_)
NatDigits(n) == IF n = 0 THEN <<>> ELSE Append(NatDigits(n \div 10), n % 10)

\* -1, 0, 1 as a < b, a = b, a > b (a, b stripped)
NatCmp(a, b) ==
  IF Len(a) # Len(b) THEN (IF Len(a) < Len(b) THEN 0 - 1 ELSE 1)
  ELSE IF a = b THEN 0
  ELSE IF \E k \in 1..Len(a) : a[k] < b[k] /\ \A j \in 1..(k - 1) : a[j] = b[j]
    THEN 0 - 1 ELSE 1

Last(ds) == IF ds = <<>> THEN 0 ELSE ds[Len(ds)]
Front(ds) == IF ds = <<>> THEN ds ELSE SubSeq(ds, 1, Len(ds) - 1)

RECURSIVE AddCarry(_, _, _)
AddCarry(a, b, carry) ==
  IF a = <<>> /\ b = <<>> THEN (IF carry = 0 THEN <<>> ELSE <<carry>>)
  ELSE Append(AddCarry(Front(a), Front(b), (Last(a) + Last(b) + carry) \div 10),
              (Last(a) + Last(b) + carry) % 10)

NatAdd(a, b) == Strip(AddCarry(a, b, 0))

\* a - b for a >= b
RECURSIVE SubBorrow(_, _, _)
SubBorrow(a, b, borrow) ==
  IF a = <<>> THEN <<>>
  ELSE Append(SubBorrow(Front(a), Front(b), IF Last(a) < Last(b) + borrow THEN 1 ELSE 0),
              IF Last(a) < Last(b) + borrow
                THEN Last(a) + 10 - (Last(b) + borrow)
                ELSE Last(a) - (Last(b) + borrow))

NatSub(a, b) == Strip(SubBorrow(a, b, 0))

\* How many times b (non-zero) fits in r, for r < 10 * b
RECURSIVE Fits(_, _)
Fits(r, b) == IF NatCmp(r, b) < 0 THEN 0 ELSE 1 + Fits(NatSub(r, b), b)

RECURSIVE Reduce(_, _)
Reduce(r, b) == IF NatCmp(r, b) < 0 THEN r ELSE Reduce(NatSub(r, b), b)

\* Quotient of a by b (non-zero), long division from digit i with remainder r
RECURSIVE DivFrom(_, _, _, _)
DivFrom(a, b, i, r) ==
  IF i > Len(a) THEN <<>>
  ELSE <<Fits(Strip(Append(r, a[i])), b)>>
       \o DivFrom(a, b, i + 1, Reduce(Strip(Append(r, a[i])), b))

NatDiv(a, b) == Strip(DivFrom(a, b, 1, <<>>))

---------------------------------------------------------------------------
(* JavaScript value layer *)

Value(t, neg, ip, fp, s) == [t |-> t, neg |-> neg, ip |-> ip, fp |-> fp, s |-> s]

Undef == Value("undefined", FALSE, <<>>, <<>>, <<>>)
Null == Value("null", FALSE, <<>>, <<>>, <<>>)
NaN == Value("nan", FALSE, <<>>, <<>>, <<>>)
Inf(neg) == Value("inf", neg, <<>>, <<>>, <<>>)
Str(chars) == Value("string", FALSE, <<>>, <<>>, chars)

\* The finite number with sign neg, integer digits ip and fraction digits fp
Finite(neg, ip, fp) ==
  Value("number", neg /\ (Strip(ip) # <<>> \/ StripRight(fp) # <<>>),
        Strip(ip), StripRight(fp), <<>>)

\* The finite number of sign neg and magnitude ds in units of 10^(-e),
\* ds given with at least e digits
Split(neg, ds, e) ==
  Finite(neg, SubSeq(ds, 1, Len(ds) - e), SubSeq(ds, Len(ds) - e + 1, Len(ds)))
Unscaled(neg, ds, e) == Split(neg, Zeros(e - Len(ds)) \o ds, e)

\* m * 10^(-e) for an integer m
Dec(m, e) == Unscaled(m < 0, NatDigits(IF m < 0 THEN 0 - m ELSE m), e)
Num(n) == Dec(n, 0)
Zero == Num(0)

IsInteger(v) == v.t = "number" /\ v.fp = <<>>

DigitChars == <<"0", "1", "2", "3", "4", "5", "6", "7", "8", "9">>
IsDigit(c) == \E i \in 1..10 : DigitChars[i] = c
DigitVal(c) == (CHOOSE i \in 1..10 : DigitChars[i] = c) - 1

DigitsToChars(ds) == [i \in 1..Len(ds) |-> DigitChars[ds[i] + 1]]
CharsToDigits(cs) == [i \in 1..Len(cs) |-> DigitVal(cs[i])]
AllDigits(cs) == \A i \in 1..Len(cs) : IsDigit(cs[i])

InfinityChars == <<"I", "n", "f", "i", "n", "i", "t", "y">>

\* Number.prototype.toString for a finite number: sign, integer part, fraction
DecToStr(v) ==
  (IF v.neg THEN <<"-">> ELSE <<>>)
  \o (IF v.ip = <<>> THEN <<"0">> ELSE DigitsToChars(v.ip))
  \o (IF v.fp = <<>> THEN <<>> ELSE <<".">> \o DigitsToChars(v.fp))

\* ToString, as applied by string concatenation and template literals
JsToString(v) ==
  CASE v.t = "string" -> v.s
    [] v.t = "number" -> DecToStr(v)
    [] v.t = "nan" -> <<"N", "a", "N">>
    [] v.t = "inf" -> (IF v.neg THEN <<"-">> ELSE <<>>) \o InfinityChars
    [] v.t = "null" -> <<"n", "u", "l", "l">>
    [] OTHER -> <<"u", "n", "d", "e", "f", "i", "n", "e", "d">>

\* Position of the first "." in chars, Len(chars) + 1 when there is none
RECURSIVE DotAt(_, _)
DotAt(chars, i) ==
  IF i > Len(chars) \/ chars[i] = "." THEN i ELSE DotAt(chars, i + 1)

\* digits [. digits] | . digits, with the "." at position dot
Unsigned(neg, body, dot) ==
  IF /\ AllDigits(SubSeq(body, 1, dot - 1))
     /\ AllDigits(SubSeq(body, dot + 1, Len(body)))
     /\ Len(body) > (IF dot <= Len(body) THEN 1 ELSE 0)
    THEN Finite(neg, CharsToDigits(SubSeq(body, 1, dot - 1)),
                CharsToDigits(SubSeq(body, dot + 1, Len(body))))
    ELSE NaN

Signed(neg, body) ==
  IF body = InfinityChars THEN Inf(neg) ELSE Unsigned(neg, body, DotAt(body, 1))

\* StringToNumber: [sign] digits [. digits] | [sign] . digits | [sign] Infinity
StrToNumber(chars) ==
  IF chars = <<>> THEN Zero
  ELSE IF chars[1] \in {"-", "+"} THEN Signed(chars[1] = "-", Tail(chars))
  ELSE Signed(FALSE, chars)

\* ToNumber, as applied by Number(value) and by the arithmetic operators
ToNumber(v) ==
  CASE v.t = "string" -> StrToNumber(v.s)
    [] v.t = "null" -> Zero
    [] v.t = "undefined" -> NaN
    [] OTHER -> v

\* ToBoolean, as applied by !x and x || y
Truthy(v) ==
  CASE v.t = "number" -> v.ip # <<>> \/ v.fp # <<>>
    [] v.t = "string" -> v.s # <<>>
    [] v.t = "inf" -> TRUE
    [] OTHER -> FALSE

JsOr(a, b) == IF Truthy(a) THEN a ELSE b

\* a === b
StrictEq(a, b) == a.t # "nan" /\ b.t # "nan" /\ a = b

\* The magnitude of a finite number in units of 10^(-e), for e >= Len(v.fp)
Scaled(v, e) == Strip(v.ip \o v.fp \o Zeros(e - Len(v.fp)))
MaxE(a, b) == IF Len(a.fp) > Len(b.fp) THEN Len(a.fp) ELSE Len(b.fp)

\* -1, 0, 1 as a < b, a = b, a > b on finite numbers
FiniteCmp(a, b) ==
  CASE a.neg /\ ~b.neg -> 0 - 1
    [] ~a.neg /\ b.neg -> 1
    [] a.neg /\ b.neg -> NatCmp(Scaled(b, MaxE(a, b)), Scaled(a, MaxE(a, b)))
    [] OTHER -> NatCmp(Scaled(a, MaxE(a, b)), Scaled(b, MaxE(a, b)))

\* a < b on numbers (false whenever an operand is NaN)
NumLt(a, b) ==
  CASE a.t = "nan" \/ b.t = "nan" -> FALSE
    [] a.t = "inf" /\ b.t = "inf" -> a.neg /\ ~b.neg
    [] a.t = "inf" -> a.neg
    [] b.t = "inf" -> ~b.neg
    [] OTHER -> FiniteCmp(a, b) < 0

\* a < b and a > b with ToNumber on both operands (never two strings here)
JsLt(a, b) == NumLt(ToNumber(a), ToNumber(b))
JsGt(a, b) == NumLt(ToNumber(b), ToNumber(a))

\* Signed sum of the magnitudes x and y, both in units of 10^(-e)
AddScaled(xneg, x, yneg, y, e) ==
  IF xneg = yneg THEN Unscaled(xneg, NatAdd(x, y), e)
  ELSE IF NatCmp(x, y) >= 0 THEN Unscaled(xneg, NatSub(x, y), e)
  ELSE Unscaled(yneg, NatSub(y, x), e)

FiniteAdd(a, b) ==
  AddScaled(a.neg, Scaled(a, MaxE(a, b)), b.neg, Scaled(b, MaxE(a, b)), MaxE(a, b))

NumAdd(a, b) ==
  CASE a.t = "nan" \/ b.t = "nan" -> NaN
    [] a.t = "inf" /\ b.t = "inf" -> IF a.neg = b.neg THEN a ELSE NaN
    [] a.t = "inf" -> a
    [] b.t = "inf" -> b
    [] OTHER -> FiniteAdd(a, b)

NumNeg(a) ==
  CASE a.t = "number" -> Finite(~a.neg, a.ip, a.fp)
    [] a.t = "inf" -> Inf(~a.neg)
    [] OTHER -> a

\* a + b: concatenation as soon as one operand is a string, else numeric
JsAdd(a, b) ==
  IF a.t = "string" \/ b.t = "string"
    THEN Str(JsToString(a) \o JsToString(b))
    ELSE NumAdd(ToNumber(a), ToNumber(b))

\* a - b: always numeric
JsSub(a, b) == NumAdd(ToNumber(a), NumNeg(ToNumber(b)))

\* Math.round: nearest integer, halves towards +Infinity
RoundsUp(x) ==
  /\ x.fp # <<>>
  /\ IF x.neg THEN x.fp[1] > 5 \/ (x.fp[1] = 5 /\ Len(x.fp) > 1) ELSE x.fp[1] >= 5

MathRound(x) ==
  IF x.t # "number" THEN x
  ELSE Finite(x.neg, IF RoundsUp(x) THEN NatAdd(x.ip, <<1>>) ELSE x.ip, <<>>)

NumMax(x, y) ==
  IF x.t = "nan" \/ y.t = "nan" THEN NaN ELSE IF NumLt(x, y) THEN y ELSE x
NumMin(x, y) ==
  IF x.t = "nan" \/ y.t = "nan" THEN NaN ELSE IF NumLt(y, x) THEN y ELSE x

MathMax(a, b) == NumMax(ToNumber(a), ToNumber(b))
MathMin(a, b) == NumMin(ToNumber(a), ToNumber(b))

---------------------------------------------------------------------------
(* Configuration defaults (constructor) *)

allowedVehicleTypes == <<"bus", "mobil", "motor">>
VehicleTypes == {allowedVehicleTypes[i] : i \in 1..Len(allowedVehicleTypes)}
minCapacity == 0
maxCapacity == 1000
minCapacityValue == Num(minCapacity)
maxCapacityValue == Num(maxCapacity)

---------------------------------------------------------------------------
(* Slots: location[vehicleType] is an object {total, available} or, when   *)
(* obj is FALSE, the non-object value v (undefined when the key is absent) *)

Object(total, available) ==
  [obj |-> TRUE, v |-> Undef, total |-> total, available |-> available]
Scalar(v) == [obj |-> FALSE, v |-> v, total |-> Undef, available |-> Undef]
ZeroSlot == Object(Zero, Zero)

\* !location[type]: objects are truthy, a scalar by its own truthiness
SlotFalsy(slot) == ~slot.obj /\ ~Truthy(slot.v)

\* parseNumber(value, defaultValue): returned value
parseNumber(value, defaultValue) ==
  IF value.t \in {"null", "undefined"} \/ value = Str(<<>>)
    THEN defaultValue
    ELSE IF ToNumber(value).t = "nan"
      THEN defaultValue
      ELSE MathMax(Zero, MathRound(ToNumber(value)))

\* parseNumber: whether the "Invalid number value" warning is logged
parseNumberWarns(value) ==
  /\ ~(value.t \in {"null", "undefined"} \/ value = Str(<<>>))
  /\ ToNumber(value).t = "nan"

\* processVehicleType, "Update with validated values" and the returned
\* result: t and a are vehicleData.total and vehicleData.available as the
\* validation rules left them
storeValidated(slot, force, total, available, belowMin, aboveMax, negative, exceeds, newTotal, newAvailable) ==
  [threw |-> FALSE,
   slot |-> Object(newTotal, newAvailable),
   issues |-> (IF belowMin THEN <<"below minimum">> ELSE <<>>)
              \o (IF aboveMax THEN <<"exceeds maximum">> ELSE <<>>)
              \o (IF negative THEN <<"negative available">> ELSE <<>>)
              \o (IF exceeds THEN <<"available exceeds total">> ELSE <<>>),
   fixes |-> (IF belowMin /\ force THEN <<"forced to minimum">> ELSE <<>>)
             \o (IF aboveMax /\ force THEN <<"capped to maximum">> ELSE <<>>)
             \o (IF negative THEN <<"fixed negative available">> ELSE <<>>)
             \o (IF exceeds THEN <<"fixed available to total">> ELSE <<>>)
             \o (IF \/ ~StrictEq(slot.total, newTotal)
                    \/ ~StrictEq(slot.available, newAvailable)
                   THEN <<"updated">> ELSE <<>>),
   total |-> total,
   available |-> available]

\* processVehicleType, vehicleData.available = vehicleData.available ||
\* Math.min(available, vehicleData.total)
storeAvailable(slot, force, total, available, belowMin, aboveMax, negative, exceeds, newTotal, a) ==
  storeValidated(slot, force, total, available, belowMin, aboveMax, negative, exceeds,
                 newTotal, JsOr(a, MathMin(available, newTotal)))

\* processVehicleType, the validation rules on the parsed total and available
applyRules(slot, force, total, available, belowMin, aboveMax, negative, exceeds) ==
  storeAvailable(slot, force, total, available, belowMin, aboveMax, negative, exceeds,
    JsOr(IF aboveMax /\ force THEN maxCapacityValue
         ELSE IF belowMin /\ force THEN minCapacityValue
         ELSE slot.total,
         total),
    IF exceeds THEN total ELSE IF negative THEN Zero ELSE slot.available)

checkRules(slot, force, total, available) ==
  applyRules(slot, force, total, available,
             JsLt(total, minCapacityValue), JsGt(total, maxCapacityValue),
             JsLt(available, Zero), JsGt(available, total))

\* processVehicleType(location, vehicleType) on the slot location[vehicleType].
\* threw: the repair of a non-object slot assigns to the const vehicleData,
\* which raises a TypeError before anything is stored.
processVehicleType(slot, force) ==
  IF ~slot.obj
    THEN [threw |-> TRUE, slot |-> slot, issues |-> <<>>, fixes |-> <<>>,
          total |-> Undef, available |-> Undef]
    ELSE checkRules(slot, force, parseNumber(slot.total, Zero),
                    parseNumber(slot.available, Zero))

---------------------------------------------------------------------------
(* Locations, statistics block, dataset document, data file *)

Location(name, bus, mobil, motor) ==
  [name |-> name,
   slots |-> [bus |-> bus, mobil |-> mobil, motor |-> motor],
   lastValidated |-> 0,
   validationIssues |-> 0 - 1]

PerType(bus, mobil, motor, all) ==
  [bus |-> bus, mobil |-> mobil, motor |-> motor, total |-> all]

\* A statistics block; absent members are undefined. metaUpdateCount is
\* statistics.metadata.updateCount, perfUpdateCount is
\* statistics.performance.updateCount.
Statistics(present, capacity, available, utilization, meta, perf, n) ==
  [present |-> present, capacity |-> capacity, available |-> available,
   utilization |-> utilization, metaUpdateCount |-> meta,
   perfUpdateCount |-> perf, totalLocations |-> n]

Utilization(bus, mobil, motor, overall) ==
  [bus |-> bus, mobil |-> mobil, motor |-> motor, overall |-> overall]

NoPerType == PerType(Undef, Undef, Undef, Undef)
NoUtilization == Utilization(Undef, Undef, Undef, Undef)
EmptyStatistics == Statistics(TRUE, NoPerType, NoPerType, NoUtilization, Undef, Undef, 0)
NoStatistics == Statistics(FALSE, NoPerType, NoPerType, NoUtilization, Undef, Undef, 0)

Document(hasLocations, locations, statistics) ==
  [hasLocations |-> hasLocations, locations |-> locations, statistics |-> statistics]
NoDocument == Document(FALSE, <<>>, NoStatistics)

\* The data file: absent, text that is not JSON, or the text of a document
FileMissing == [kind |-> "missing", doc |-> NoDocument]
FileInvalid == [kind |-> "invalid", doc |-> NoDocument]
FileOf(doc) == [kind |-> "json", doc |-> doc]

\* JSON.stringify of a value: NaN and Infinity are written as null
jsonValue(v) == IF v.t \in {"nan", "inf"} THEN Null ELSE v

jsonSlot(slot) ==
  [slot EXCEPT !.v = jsonValue(@), !.total = jsonValue(@), !.available = jsonValue(@)]

jsonPerType(p) ==
  PerType(jsonValue(p.bus), jsonValue(p.mobil), jsonValue(p.motor), jsonValue(p.total))

jsonLocation(loc) ==
  [loc EXCEPT !.slots = [type \in DOMAIN loc.slots |-> jsonSlot(loc.slots[type])]]

\* JSON.stringify(data) followed, at the next run, by JSON.parse
jsonDocument(doc) ==
  [doc EXCEPT
     !.locations = [i \in 1..Len(doc.locations) |-> jsonLocation(doc.locations[i])],
     !.statistics = [doc.statistics EXCEPT
        !.capacity = jsonPerType(@),
        !.available = jsonPerType(@),
        !.utilization = [k \in DOMAIN @ |-> jsonValue(@[k])],
        !.metaUpdateCount = jsonValue(@),
        !.perfUpdateCount = jsonValue(@)]]

---------------------------------------------------------------------------
(* Utilization: the raw double ((T - A) / T) * 100 kept as an exact ratio  *)
(* 100 * num / den, and its toFixed(1) rendering                           *)

Ratio(neg, num, den) == [t |-> "number", neg |-> neg, num |-> num, den |-> den]
RatioNaN == [t |-> "nan", neg |-> FALSE, num |-> <<>>, den |-> <<1>>]
RatioInf(neg) == [t |-> "inf", neg |-> neg, num |-> <<>>, den |-> <<1>>]
ZeroRatio == Ratio(FALSE, <<>>, <<1>>)

\* x / T * 100 for x = totals - available and T = totals as numbers
ratioOf(x, T) ==
  CASE x.t = "nan" -> RatioNaN
    [] T.t = "inf" -> IF x.t = "inf" THEN RatioNaN ELSE ZeroRatio
    [] x.t = "inf" -> RatioInf(x.neg)
    [] OTHER -> Ratio(x.neg, Scaled(x, MaxE(x, T)), Scaled(T, MaxE(x, T)))

\* Mutation of utilizationOf: the share of free spaces, available / totals * 100
utilizationOfFree(totals, available) == ratioOf(ToNumber(available), ToNumber(totals))

\* ((totals - available) / totals) * 100, evaluated where totals > 0 held
utilizationOf(totals, available) == ratioOf(JsSub(totals, available), ToNumber(totals))

\* The digits of a number of tenths n as "<whole>.<tenth>"
tenthsToStr(neg, n) ==
  Str((IF neg THEN <<"-">> ELSE <<>>)
      \o (IF Len(n) <= 1 THEN <<"0">> ELSE DigitsToChars(Front(n)))
      \o <<".", DigitChars[Last(n) + 1]>>)

\* Number.prototype.toFixed(1): nearest tenth, ties away from zero
toFixed1(r) ==
  CASE r.t = "nan" -> Str(<<"N", "a", "N">>)
    [] r.t = "inf" -> Str((IF r.neg THEN <<"-">> ELSE <<>>) \o InfinityChars)
    [] OTHER -> tenthsToStr(r.neg,
         NatDiv(NatAdd(Strip(NatAdd(r.num, r.num) \o <<0, 0, 0>>), r.den),
                NatAdd(r.den, r.den)))

---------------------------------------------------------------------------
(* The validator object: results and metrics as the constructor sets them *)

InitialResults ==
  [totals |-> PerType(Zero, Zero, Zero, Zero),
   available |-> PerType(Zero, Zero, Zero, Zero),
   utilization |-> Utilization(ZeroRatio, ZeroRatio, ZeroRatio, ZeroRatio),
   issues |-> <<>>,
   fixes |-> <<>>,
   backup |-> FALSE]

InitialMetrics == [locationsProcessed |-> 0, issuesFound |-> 0, fixesApplied |-> 0]

\* Mutation of structureErrors: no required member is checked
structureErrorsNone(doc) == <<>>

\* validateStructure(data): the errors it collects
structureErrors(doc) ==
  (IF ~doc.hasLocations THEN <<"locations">> ELSE <<>>)
  \o (IF ~doc.statistics.present THEN <<"statistics">> ELSE <<>>)
  \o (IF doc.hasLocations /\ \E i \in 1..Len(doc.locations) : doc.locations[i].name = ""
        THEN <<"name">> ELSE <<>>)

\* validateStructure(data): the document it leaves, a falsy slot replaced
\* by a zero-filled one
validateStructure(doc) ==
  [doc EXCEPT !.locations =
     [i \in 1..Len(doc.locations) |->
        [doc.locations[i] EXCEPT !.slots =
           [type \in DOMAIN @ |-> IF SlotFalsy(@[type]) THEN ZeroSlot ELSE @[type]]]]]

\* processBatch, inner loop body: what one processVehicleType result adds to
\* acc = [loc, issues, fixes, results, metrics, threw, parsed]
addResult(acc, type, input, result) ==
  IF result.threw THEN [acc EXCEPT !.threw = TRUE]
  ELSE [acc EXCEPT
          !.loc.slots[type] = result.slot,
          !.issues = @ \o result.issues,
          !.fixes = @ \o result.fixes,
          !.metrics.issuesFound = @ + Len(result.issues),
          !.metrics.fixesApplied = @ + Len(result.fixes),
          !.results.totals[type] = JsAdd(@, result.slot.total),
          !.results.available[type] = JsAdd(@, result.slot.available),
          !.parsed = @ \cup
             {[value |-> input.total, result |-> result.total,
               warned |-> parseNumberWarns(input.total)],
              [value |-> input.available, result |-> result.available,
               warned |-> parseNumberWarns(input.available)]}]

\* processBatch, inner loop: the vehicle types of one location from the
\* i-th on
RECURSIVE processTypes(_, _, _)
processTypes(acc, force, i) ==
  IF i > Len(allowedVehicleTypes) \/ acc.threw THEN acc
  ELSE processTypes(
         addResult(acc, allowedVehicleTypes[i], acc.loc.slots[allowedVehicleTypes[i]],
                   processVehicleType(acc.loc.slots[allowedVehicleTypes[i]], force)),
         force, i + 1)

\* processBatch, end of the loop body: location metadata, issues and fixes.
\* st = [locations, results, metrics, threw, timedOut, parsed]: locations
\* collects the locations as the loop leaves them.
recordLocation(st, name, acc, now) ==
  IF acc.threw
    THEN [st EXCEPT !.locations = Append(@, acc.loc), !.results = acc.results,
                    !.metrics = acc.metrics, !.threw = TRUE, !.parsed = acc.parsed]
    ELSE [st EXCEPT
            !.locations = Append(@,
               [acc.loc EXCEPT !.lastValidated = now,
                               !.validationIssues = Len(acc.issues)]),
            !.results = [acc.results EXCEPT
               !.issues = IF acc.issues = <<>> THEN @
                          ELSE Append(@, [location |-> name, issues |-> acc.issues]),
               !.fixes = IF acc.fixes = <<>> THEN @
                         ELSE Append(@, [location |-> name, fixes |-> acc.fixes])],
            !.metrics = acc.metrics,
            !.parsed = acc.parsed]

\* processBatch, body of the loop for one location
processLocation(st, loc, force, now) ==
  recordLocation(st, loc.name,
    processTypes(
      [loc |-> loc, issues |-> <<>>, fixes |-> <<>>,
       results |-> st.results,
       metrics |-> [st.metrics EXCEPT !.locationsProcessed = @ + 1],
       threw |-> FALSE, parsed |-> st.parsed],
      force, 1),
    now)

\* processBatch(batch, data): the locations from the i-th on; a location
\* that throws ends the loop, the others staying as they are
RECURSIVE processBatch(_, _, _, _)
processBatch(locations, st, force, now) ==
  IF locations = <<>> \/ st.threw THEN [st EXCEPT !.locations = @ \o locations]
  ELSE processBatch(Tail(locations), processLocation(st, Head(locations), force, now),
                    force, now)

\* processData, after a batch: the elapsed-time check. timeoutAt is the
\* number of the batch after which the clock has passed maxProcessingTime
\* (0: never); rest are the locations not reached yet.
checkTime(st, rest, batchSize, timeoutAt, batch) ==
  IF st.threw THEN [st EXCEPT !.locations = @ \o rest]
  ELSE IF timeoutAt = batch THEN [st EXCEPT !.locations = @ \o rest, !.timedOut = TRUE]
  ELSE st

\* processData, the batch loop over the locations not reached yet: slice,
\* processBatch, then the elapsed-time check
RECURSIVE processBatches(_, _, _, _, _, _)
processBatches(rest, st, cfg, now, timeoutAt, batch) ==
  IF rest = <<>> \/ st.threw \/ st.timedOut THEN [st EXCEPT !.locations = @ \o rest]
  ELSE processBatches(
         SubSeq(rest, cfg.batchSize + 1, Len(rest)),
         checkTime(
           processBatch(SubSeq(rest, 1, IF cfg.batchSize < Len(rest)
                                          THEN cfg.batchSize ELSE Len(rest)),
                        st, cfg.force, now),
           <<>>, cfg.batchSize, timeoutAt, batch),
         cfg, now, timeoutAt, batch + 1)

\* Number of batches processData cuts n locations into
batchCount(n, batchSize) == (n + batchSize - 1) \div batchSize

\* updateStatistics: the totals, Object.values(totals).reduce((a, b) => a + b, 0)
sumValues(p) == JsAdd(JsAdd(JsAdd(JsAdd(Zero, p.bus), p.mobil), p.motor), p.total)

\* updateStatistics: utilization of one type, kept when totals is not > 0
typeUtilization(totals, available, old) ==
  IF JsGt(totals, Zero) THEN utilizationOf(totals, available) ELSE old

\* updateStatistics: this.results given the new totals and available
withUtilization(results, totals, available) ==
  [results EXCEPT
     !.totals = totals,
     !.available = available,
     !.utilization = Utilization(
        typeUtilization(totals.bus, available.bus, results.utilization.bus),
        typeUtilization(totals.mobil, available.mobil, results.utilization.mobil),
        typeUtilization(totals.motor, available.motor, results.utilization.motor),
        typeUtilization(totals.total, available.total, results.utilization.overall))]

\* updateStatistics: this.results after the totals and utilization updates
updateResults(results) ==
  withUtilization(results,
    [results.totals EXCEPT !.total = sumValues(results.totals)],
    [results.available EXCEPT !.total = sumValues(results.available)])

\* updateStatistics: the statistics block built from the updated results r
statisticsOf(doc, r) ==
  Statistics(TRUE, r.totals, r.available,
    Utilization(toFixed1(r.utilization.bus), toFixed1(r.utilization.mobil),
                toFixed1(r.utilization.motor), toFixed1(r.utilization.overall)),
    Undef,
    JsAdd(JsOr(doc.statistics.metaUpdateCount, Zero), Num(1)),
    Len(doc.locations))

\* updateStatistics: the statistics block it assigns to data.statistics
updateStatistics(doc, results) == statisticsOf(doc, updateResults(results))

\* saveData(data): the data file it writes
saveData(doc) == FileOf(jsonDocument(doc))

\* Mutation of saveChanges: the data file is written in dry-run mode too
saveChangesAlways(cfg, f, doc) == saveData(doc)

\* processData: "Save changes if not in dry-run mode", f being the data file
\* as it stands
saveChanges(cfg, f, doc) == IF cfg.dryRun THEN f ELSE saveData(doc)

\* Mutation of newerThan: the files are sorted oldest first
olderThan(files, i) ==
  Cardinality({j \in 1..Len(files) :
     \/ files[j].mtime < files[i].mtime
     \/ files[j].mtime = files[i].mtime /\ j < i})

\* cleanup: how many backup files sort before the i-th, newest first
\* (files of equal mtime keep their directory order)
newerThan(files, i) ==
  Cardinality({j \in 1..Len(files) :
     \/ files[j].mtime > files[i].mtime
     \/ files[j].mtime = files[i].mtime /\ j < i})

\* cleanup: the backup files kept, the maxBackups most recently modified
cleanup(files, maxBackups) ==
  SelectSeq([i \in 1..Len(files) |->
               [files[i] EXCEPT !.keep = newerThan(files, i) < maxBackups]],
            LAMBDA f : f.keep)

---------------------------------------------------------------------------
(* The pending-updates validator (validate-updates.js) *)

Update(location_id, petugas_name, bus, mobil, motor, timestamp, notes) ==
  [location_id |-> location_id, petugas_name |-> petugas_name, bus |-> bus,
   mobil |-> mobil, motor |-> motor, timestamp |-> timestamp, notes |-> notes]

\* parkirData.locations.map(l => l.nama): the member nama of every location,
\* undefined for a location that has none
validLocations(doc) ==
  [i \in 1..Len(doc.locations) |->
     IF "nama" \in DOMAIN doc.locations[i] THEN doc.locations[i].nama ELSE Undef]

\* String.prototype.trim, over the space character
trim(chars) ==
  LET inked == {i \in 1..Len(chars) : chars[i] # " "}
  IN IF inked = {} THEN <<>>
     ELSE SubSeq(chars, CHOOSE i \in inked : \A j \in inked : i <= j,
                 CHOOSE i \in inked : \A j \in inked : j <= i)

RECURSIVE digitPrefix(_)
digitPrefix(chars) ==
  IF chars # <<>> /\ IsDigit(chars[1])
    THEN <<chars[1]>> \o digitPrefix(Tail(chars)) ELSE <<>>

\* parseInt(value): the decimal integer the string form of value starts
\* with, after white space and a sign
parseInt(v) ==
  LET chars == trim(JsToString(v))
      signed == chars # <<>> /\ chars[1] \in {"-", "+"}
      digits == digitPrefix(IF signed THEN Tail(chars) ELSE chars)
  IN IF digits = <<>> THEN NaN
     ELSE Finite(signed /\ chars[1] = "-", CharsToDigits(digits), <<>>)

\* The value of the two-digit field of chars at position i
twoDigits(chars, i) == DigitVal(chars[i]) * 10 + DigitVal(chars[i + 1])

\* YYYY-MM-DD as Date accepts it: month 01..12, day 01..31
isoDate(chars) ==
  /\ Len(chars) = 10
  /\ chars[5] = "-" /\ chars[8] = "-"
  /\ AllDigits(SubSeq(chars, 1, 4) \o SubSeq(chars, 6, 7) \o SubSeq(chars, 9, 10))
  /\ twoDigits(chars, 6) \in 1..12
  /\ twoDigits(chars, 9) \in 1..31

\* THH:mm:ss.sssZ, the time part toISOString writes
isoTime(chars) ==
  /\ Len(chars) = 14
  /\ chars[1] = "T" /\ chars[4] = ":" /\ chars[7] = ":" /\ chars[10] = "." /\ chars[14] = "Z"
  /\ AllDigits(SubSeq(chars, 2, 3) \o SubSeq(chars, 5, 6) \o SubSeq(chars, 8, 9)
               \o SubSeq(chars, 11, 13))
  /\ twoDigits(chars, 2) < 24 /\ twoDigits(chars, 5) < 60 /\ twoDigits(chars, 8) < 60

\* !isNaN(new Date(value).getTime()), for ISO strings, strings without a
\* digit, and numbers within the range of Date
validDate(v) ==
  CASE v.t = "string" ->
         \/ isoDate(v.s)
         \/ /\ Len(v.s) > 10
            /\ isoDate(SubSeq(v.s, 1, 10))
            /\ isoTime(SubSeq(v.s, 11, Len(v.s)))
    [] v.t \in {"number", "null"} -> TRUE
    [] OTHER -> FALSE

\* value !== undefined && (isNaN(value) || value < 0): the error of a
\* numeric field, named by its key
numericErrors(key, v) ==
  IF v # Undef /\ (ToNumber(v).t = "nan" \/ JsLt(v, Zero))
    THEN <<(<<"Invalid ", key, " value">>)>> ELSE <<>>

\* The validation rules: the errors of one update, each error the sequence
\* of the fragments its message is built from
updateErrors(update, locations) ==
  (IF ~Truthy(update.location_id) \/ update.location_id.t # "string"
     THEN <<(<<"Missing or invalid location_id">>)>> ELSE <<>>)
  \o (IF /\ Truthy(update.location_id)
         /\ ~\E i \in 1..Len(locations) : locations[i] = update.location_id
        THEN <<(<<"Invalid location_id: ">> \o JsToString(update.location_id))>> ELSE <<>>)
  \o (IF ~Truthy(update.petugas_name) \/ update.petugas_name.t # "string"
        THEN <<(<<"Missing or invalid petugas_name">>)>> ELSE <<>>)
  \o numericErrors("bus", update.bus)
  \o numericErrors("mobil", update.mobil)
  \o numericErrors("motor", update.motor)
  \o (IF Truthy(update.timestamp) /\ ~validDate(update.timestamp)
        THEN <<(<<"Invalid timestamp">>)>> ELSE <<>>)

\* The cleaned form of an update without errors: the strings trimmed, the
\* numeric fields that are given parsed as integers, the notes cut to 500
cleanedUpdate(update, isoNow) ==
  [location_id |-> Str(trim(update.location_id.s)),
   petugas_name |-> Str(trim(update.petugas_name.s)),
   timestamp |-> JsOr(update.timestamp, isoNow),
   status |-> "pending",
   bus |-> IF update.bus # Undef THEN parseInt(update.bus) ELSE Undef,
   mobil |-> IF update.mobil # Undef THEN parseInt(update.mobil) ELSE Undef,
   motor |-> IF update.motor # Undef THEN parseInt(update.motor) ELSE Undef,
   notes |-> IF Truthy(update.notes)
               THEN Str(SubSeq(update.notes.s, 1,
                               IF Len(update.notes.s) < 500 THEN Len(update.notes.s) ELSE 500))
               ELSE Undef]

\* The body of updates.forEach for one update with its errors; cleaning
\* throws (update.notes.substring is not a function) when notes is truthy
\* and not a string
checkUpdate(acc, update, errors, isoNow) ==
  IF acc.threw THEN acc
  ELSE IF errors # <<>>
    THEN [acc EXCEPT !.invalid = Append(@, [original |-> update, errors |-> errors,
                                           failed_at |-> isoNow])]
  ELSE IF Truthy(update.notes) /\ update.notes.t # "string" THEN [acc EXCEPT !.threw = TRUE]
  ELSE [acc EXCEPT !.valid = Append(@, cleanedUpdate(update, isoNow))]

\* updates.forEach(...)
RECURSIVE forEachUpdate(_, _, _, _)
forEachUpdate(updates, locations, isoNow, acc) ==
  IF updates = <<>> THEN acc
  ELSE forEachUpdate(Tail(updates), locations, isoNow,
                     checkUpdate(acc, Head(updates),
                                 updateErrors(Head(updates), locations), isoNow))

\* JSON.stringify(validUpdates): a NaN member is written as null
jsonUpdates(list) ==
  [i \in 1..Len(list) |->
     [list[i] EXCEPT !.bus = jsonValue(@), !.mobil = jsonValue(@), !.motor = jsonValue(@),
                     !.timestamp = jsonValue(@)]]

---------------------------------------------------------------------------
(* Bounds and inputs *)

MaxLocations == 2
MaxRuns == 2
MaxBackups == 1
BatchSizes == {1, 2}

Chars(str) ==
  CASE str = "10" -> <<"1", "0">>
    [] str = "5" -> <<"5">>
    [] str = "abc" -> <<"a", "b", "c">>
    [] str = "" -> <<>>
    [] str = "Infinity" -> InfinityChars

\* Values a slot field is given in the data file
FieldValues ==
  {Undef, Null, Num(0 - 5), Zero, Num(3), Num(10), Dec(25, 1), Num(1500),
   Str(Chars("10")), Str(Chars("abc")), Str(Chars("")), Str(Chars("Infinity"))}

Pair(total, available) == Object(Num(total), Num(available))

\* The two locations of the statistics test (testStatisticsCalculation)
LocationA == Location("A", Pair(10, 3), Pair(20, 10), Pair(30, 20))
LocationB == Location("B", Pair(5, 2), Pair(15, 5), Pair(25, 15))

LocationPool ==
  {LocationA,
   LocationB,
   Location("S", Object(Str(Chars("10")), Num(3)), Object(Num(20), Str(Chars("5"))),
            Scalar(Undef)),
   Location("F", Pair(0 - 5, 10), Pair(1500, 2000), Object(Null, Str(Chars("abc")))),
   Location("N", Scalar(Num(7)), Pair(1, 1), Pair(1, 1))}

RECURSIVE SeqsUpTo(_, _)
SeqsUpTo(S, n) ==
  IF n = 0 THEN {<<>>}
  ELSE LET shorter == SeqsUpTo(S, n - 1)
       IN shorter \cup {Append(q, x) : q \in shorter, x \in S}

\* A statistics block left by some other tool, with metadata.updateCount set
SeededStatistics ==
  Statistics(TRUE, NoPerType, NoPerType, NoUtilization, Num(3), Undef, 0)

\* Data files the pipeline is run on: datasets of pool locations, and the
\* files loadData refuses
PoolFiles ==
  {FileOf(Document(TRUE, locations, EmptyStatistics)) :
     locations \in SeqsUpTo(LocationPool, MaxLocations)}
  \cup {FileOf(Document(TRUE, <<>>, SeededStatistics)),
        FileOf(Document(FALSE, <<>>, EmptyStatistics)),
        FileOf(Document(TRUE, <<>>, NoStatistics)),
        FileOf(Document(TRUE, <<LocationA>>, NoStatistics)),
        FileMissing, FileInvalid}

\* Data files of one location whose bus slot holds any pair of field values
PairFiles ==
  {FileOf(Document(TRUE, <<Location("P", Object(t, a), ZeroSlot, ZeroSlot)>>,
                   EmptyStatistics)) :
     t \in FieldValues, a \in FieldValues}

Modes == {"strict", "fix"}

Configs ==
  [mode : Modes, force : BOOLEAN, dryRun : BOOLEAN, backup : BOOLEAN,
   batchSize : BatchSizes, maxBackups : {MaxBackups}]

\* The configurations the pool datasets are run under: the default mode
PoolConfigs == {c \in Configs : c.mode = "strict"}

PairConfigs == {c \in Configs : ~c.dryRun /\ c.backup /\ c.batchSize = 1}

\* The dataset of the statistics test
ScenarioFile == FileOf(Document(TRUE, <<LocationA, LocationB>>, EmptyStatistics))

\* A backup file left by an earlier run; mtime counts from the start of the
\* first run modelled, so older files have negative mtimes
OldBackup(mtime) == [mtime |-> mtime, content |-> ScenarioFile, keep |-> TRUE]

\* A backup directory of n old files of distinct mtimes, listed in an order
\* that is not their age order
OldBackupDir(n) == [i \in 1..n |-> OldBackup(0 - (((i + 1) % n) + 1))]

\* Backup directories holding more files than max-backups keeps
BackupDirs == {OldBackupDir(MaxBackups + 2), OldBackupDir(MaxBackups + 3)}

\* The configurations run against a filled backup directory
RetentionConfigs ==
  {c \in PoolConfigs : ~c.force /\ c.batchSize = 1}

MaxUpdates == 2

\* The instant of the call, as new Date().toISOString() writes it
isoNow ==
  Str(<<"2", "0", "2", "6", "-", "0", "3", "-", "2", "0", "T", "1", "0", ":", "0", "0",
        ":", "0", "0", ".", "0", "0", "0", "Z">>)

\* An update for location A by officer P with the given optional members
UpdateOfA(bus, mobil, motor, timestamp, notes) ==
  Update(Str(<<"A">>), Str(<<"P">>), bus, mobil, motor, timestamp, notes)

\* Entries of data/pending-updates.json
UpdatePool ==
  {UpdateOfA(Num(3), Undef, Undef,
             Str(<<"2", "0", "2", "6", "-", "0", "3", "-", "1", "9">>), Undef),
   UpdateOfA(Undef, Undef, Undef, Undef, Undef),
   UpdateOfA(Num(0 - 1), Undef, Undef, Undef, Undef),
   UpdateOfA(Str(<<"5">>), Undef, Undef, Undef, Undef),
   UpdateOfA(Undef, Null, Undef, Undef, Undef),
   UpdateOfA(Undef, Undef, Str(<<"a", "b", "c">>), Undef, Undef),
   UpdateOfA(Dec(25, 1), Zero, Undef, Str(<<"b", "a", "d">>), Undef),
   UpdateOfA(Dec(25, 1), Zero, Undef, Str(<<>>), Str(<<"o", "k">>)),
   UpdateOfA(Undef, Undef, Undef, Undef, Num(3)),
   Update(Str(<<" ", "B", " ">>), Str(<<" ", "P">>), Undef, Undef, Undef, Undef, Undef),
   Update(Str(<<"Z">>), Str(<<"P">>), Undef, Undef, Undef, Undef, Undef),
   Update(Num(5), Str(<<"P">>), Undef, Undef, Undef, Undef, Undef),
   Update(Str(<<"A">>), Undef, Undef, Undef, Undef, Undef, Undef),
   Update(Undef, Str(<<>>), Undef, Undef, Undef, Undef, Undef)}

\* data/pending-updates.json: absent, not JSON, or a list of updates
NoPendingFile == [kind |-> "missing", updates |-> <<>>]

PendingFiles ==
  {[kind |-> "json", updates |-> updates] : updates \in SeqsUpTo(UpdatePool, MaxUpdates)}
  \cup {NoPendingFile, [kind |-> "invalid", updates |-> <<>>]}

\* A location that carries the member nama next to name
WithNama(loc, chars) ==
  [name |-> loc.name, nama |-> Str(chars), slots |-> loc.slots,
   lastValidated |-> loc.lastValidated, validationIssues |-> loc.validationIssues]

\* data/parkir-data.json as the updates validator finds it: the dataset of the
\* parking validator, a dataset whose locations carry nama, and the files
\* that cannot be read as a dataset
UpdateDatasets ==
  {ScenarioFile,
   FileOf(Document(TRUE, <<WithNama(LocationA, <<"A">>),
                           WithNama(Location(" B ", ZeroSlot, ZeroSlot, ZeroSlot),
                                    <<" ", "B", " ">>)>>,
                   EmptyStatistics)),
   FileOf(Document(FALSE, <<>>, EmptyStatistics)),
   FileMissing, FileInvalid}


---------------------------------------------------------------------------
(* State *)

VARIABLES
  config,     \* this.config: the flags of the installation
  file,       \* the data file at config.dataPath
  backups,    \* the files of config.backupDir, in directory order
  report,     \* validation-report-latest.json
  pc,         \* where validate() stands
  data,       \* the dataset loaded by loadData
  results,    \* this.results
  metrics,    \* this.metrics
  parsed,     \* the calls of parseNumber made in this run
  outcome,    \* what validate() returns
  exitCode,   \* process exit code, -1 while running
  runs,       \* runs finished so far
  startFile,  \* history: the data file when the run started
  startBackups, \* history: the backup directory when the run started
  previous,   \* history: the run before this one
  pending,    \* data/pending-updates.json
  invalidDir, \* the files of data/updates/invalid
  updatesResult, \* what validateAndCleanUpdates returns
  startPending \* history: the pending file when validateAndCleanUpdates was called

updateVars == <<pending, invalidDir, updatesResult, startPending>>

vars == <<config, file, backups, report, pc, data, results, metrics, parsed,
          outcome, exitCode, runs, startFile, startBackups, previous, updateVars>>

\* config.dataPath
dataPath == "data/parkir-data.json"

\* error.message is kept as the sequence of the fragments it is built from
NoOutcome == [returned |-> FALSE, success |-> FALSE, error |-> <<>>]
NoReport == [written |-> FALSE, mode |-> "", total_capacity |-> Undef, total_available |-> Undef,
             utilization_percent |-> Undef]
NoPrevious == [valid |-> FALSE, success |-> FALSE, startFile |-> FileMissing,
               statistics |-> NoStatistics]
now == runs + 1

NotCalled == [state |-> "idle", valid |-> 0, invalid |-> 0, cleaned |-> <<>>]

Init ==
  /\ \/ config \in PoolConfigs /\ file \in PoolFiles /\ backups = <<>>
     \/ config \in PairConfigs /\ file \in PairFiles /\ backups = <<>>
     \/ config \in RetentionConfigs /\ file = ScenarioFile /\ backups \in BackupDirs
  /\ report = NoReport
  /\ pc = "idle"
  /\ data = NoDocument
  /\ results = InitialResults
  /\ metrics = InitialMetrics
  /\ parsed = {}
  /\ outcome = NoOutcome
  /\ exitCode = 0 - 1
  /\ runs = 0
  /\ startFile = file
  /\ startBackups = backups
  /\ previous = NoPrevious
  /\ pending = NoPendingFile
  /\ invalidDir = <<>>
  /\ updatesResult = NotCalled
  /\ startPending = pending

\* Mutation of Fail: the catch block reports the run as successful
FailAsSuccess(error) ==
  /\ pc' = "failed"
  /\ outcome' = [returned |-> TRUE, success |-> TRUE, error |-> error]

\* validate(), catch block: the failure result
Fail(error) ==
  /\ pc' = "failed"
  /\ outcome' = [returned |-> TRUE, success |-> FALSE, error |-> error]

\* node scripts/validate-parking.js: the constructor
Start ==
  /\ UNCHANGED updateVars
  /\ pc \in {"idle", "exited"}
  /\ runs < MaxRuns
  /\ pc' = "backup"
  /\ data' = NoDocument
  /\ results' = InitialResults
  /\ metrics' = InitialMetrics
  /\ parsed' = {}
  /\ outcome' = NoOutcome
  /\ exitCode' = 0 - 1
  /\ startFile' = file
  /\ startBackups' = backups
  /\ UNCHANGED <<config, file, backups, report, runs, previous>>

\* Mutation of CreateBackup: createBackup does not skip in dry-run mode
CreateBackupInDryRun ==
  /\ UNCHANGED updateVars
  /\ pc = "backup"
  /\ IF ~config.backup
       THEN /\ pc' = "load"
            /\ UNCHANGED <<backups, results, outcome>>
       ELSE IF file.kind = "missing"
         THEN /\ Fail(<<"Data file not found: ", dataPath>>)
              /\ UNCHANGED <<backups, results>>
         ELSE /\ backups' = Append(backups, [mtime |-> now, content |-> file, keep |-> TRUE])
              /\ results' = [results EXCEPT !.backup = TRUE]
              /\ pc' = "load"
              /\ UNCHANGED outcome
  /\ UNCHANGED <<config, file, report, data, metrics, parsed, exitCode, runs,
                 startFile, startBackups, previous>>

\* validate(): if (this.config.backup) await this.createBackup()
CreateBackup ==
  /\ UNCHANGED updateVars
  /\ pc = "backup"
  /\ IF ~config.backup \/ config.dryRun
       THEN /\ pc' = "load"
            /\ UNCHANGED <<backups, results, outcome>>
       ELSE IF file.kind = "missing"
         THEN /\ Fail(<<"Data file not found: ", dataPath>>)
              /\ UNCHANGED <<backups, results>>
         ELSE /\ backups' = Append(backups, [mtime |-> now, content |-> file, keep |-> TRUE])
              /\ results' = [results EXCEPT !.backup = TRUE]
              /\ pc' = "load"
              /\ UNCHANGED outcome
  /\ UNCHANGED <<config, file, report, data, metrics, parsed, exitCode, runs,
                 startFile, startBackups, previous>>

\* validate(): const data = await this.loadData()
LoadData ==
  /\ UNCHANGED updateVars
  /\ pc = "load"
  /\ CASE file.kind = "missing" ->
            Fail(<<"ENOENT: no such file or directory, open '", dataPath, "'">>)
            /\ UNCHANGED data
       [] file.kind = "invalid" ->
            Fail(<<"Invalid JSON format: ", "Unexpected token">>) /\ UNCHANGED data
       [] OTHER ->
            IF structureErrors(file.doc) # <<>>
              THEN /\ Fail(<<"Data structure validation failed:">>
                           \o structureErrors(file.doc))
                   /\ UNCHANGED data
              ELSE /\ data' = validateStructure(file.doc)
                   /\ pc' = "process"
                   /\ UNCHANGED outcome
  /\ UNCHANGED <<config, file, backups, report, results, metrics, parsed, exitCode,
                 runs, startFile, startBackups, previous>>

\* Mutation of FinishProcessData: the locations processed so far are saved
\* when the run is aborted
FinishProcessDataPartial(st) ==
  /\ metrics' = st.metrics
  /\ parsed' = st.parsed
  /\ IF st.threw \/ st.timedOut
       THEN /\ Fail(IF st.threw THEN <<"Assignment to constant variable.">>
                    ELSE <<"Processing timeout exceeded">>)
            /\ data' = [data EXCEPT !.locations = st.locations]
            /\ results' = st.results
            /\ file' = saveChanges(config, file, data')
       ELSE /\ data' = [data EXCEPT
                 !.locations = st.locations,
                 !.statistics = updateStatistics(data, st.results)]
            /\ results' = updateResults(st.results)
            /\ file' = saveChanges(config, file, data')
            /\ pc' = "report"
            /\ UNCHANGED outcome

\* processData after the batch loop: the throw or timeout that ends the run,
\* or updateStatistics and saveData (skipped in dry-run mode)
FinishProcessData(st) ==
  /\ metrics' = st.metrics
  /\ parsed' = st.parsed
  /\ IF st.threw \/ st.timedOut
       THEN /\ Fail(IF st.threw THEN <<"Assignment to constant variable.">>
                    ELSE <<"Processing timeout exceeded">>)
            /\ data' = [data EXCEPT !.locations = st.locations]
            /\ results' = st.results
            /\ UNCHANGED file
       ELSE /\ data' = [data EXCEPT
                 !.locations = st.locations,
                 !.statistics = updateStatistics(data, st.results)]
            /\ results' = updateResults(st.results)
            /\ file' = saveChanges(config, file, data')
            /\ pc' = "report"
            /\ UNCHANGED outcome

\* validate(): await this.processData(data)
ProcessData ==
  /\ UNCHANGED updateVars
  /\ pc = "process"
  /\ \E timeoutAt \in 0..batchCount(Len(data.locations), config.batchSize) :
       FinishProcessData(
         processBatches(data.locations,
           [locations |-> <<>>, results |-> results, metrics |-> metrics,
            threw |-> FALSE, timedOut |-> FALSE, parsed |-> parsed],
           config, now, timeoutAt, 1))
  /\ UNCHANGED <<config, backups, report, exitCode, runs, startFile, startBackups,
                 previous>>

\* validate(): const report = await this.generateReport(data). The report is
\* written with fs.writeFileSync, which either writes it or throws; the throw
\* is caught by validate like any other
GenerateReport ==
  /\ UNCHANGED updateVars
  /\ pc = "report"
  /\ \/ /\ report' = [written |-> TRUE,
                      mode |-> config.mode,
                      total_capacity |-> results.totals.total,
                      total_available |-> results.available.total,
                      utilization_percent |-> toFixed1(results.utilization.overall)]
        /\ pc' = "cleanup"
        /\ UNCHANGED outcome
     \/ /\ Fail(<<"ENOSPC: no space left on device, write">>)
        /\ UNCHANGED report
  /\ UNCHANGED <<config, file, backups, data, results, metrics, parsed,
                 exitCode, runs, startFile, startBackups, previous>>

\* validate(): await this.cleanup(), then the success result
Cleanup ==
  /\ UNCHANGED updateVars
  /\ pc = "cleanup"
  /\ backups' = IF config.dryRun THEN backups ELSE cleanup(backups, config.maxBackups)
  /\ pc' = "done"
  /\ outcome' = [returned |-> TRUE, success |-> TRUE, error |-> <<>>]
  /\ UNCHANGED <<config, file, report, data, results, metrics, parsed, exitCode,
                 runs, startFile, startBackups, previous>>

\* Main execution: process.exit(0) on success, process.exit(1) otherwise
Exit ==
  /\ UNCHANGED updateVars
  /\ pc \in {"done", "failed"}
  /\ exitCode' = IF outcome.success THEN 0 ELSE 1
  /\ pc' = "exited"
  /\ runs' = runs + 1
  /\ previous' = [valid |-> TRUE, success |-> outcome.success, startFile |-> startFile,
                  statistics |-> data.statistics]
  /\ UNCHANGED <<config, file, backups, report, data, results, metrics, parsed,
                 outcome, startFile, startBackups>>

Next ==
  \/ Start
  \/ CreateBackup
  \/ LoadData
  \/ ProcessData
  \/ GenerateReport
  \/ Cleanup
  \/ Exit

Spec == Init /\ [][Next]_vars

---------------------------------------------------------------------------
(* The pending-updates validator as a program of its own *)

UpdatesInit ==
  /\ config = [mode |-> "strict", force |-> FALSE, dryRun |-> FALSE, backup |-> TRUE,
               batchSize |-> 1, maxBackups |-> MaxBackups]
  /\ file \in UpdateDatasets
  /\ backups = <<>>
  /\ report = NoReport
  /\ pc = "idle"
  /\ data = NoDocument
  /\ results = InitialResults
  /\ metrics = InitialMetrics
  /\ parsed = {}
  /\ outcome = NoOutcome
  /\ exitCode = 0 - 1
  /\ runs = 0
  /\ startFile = file
  /\ startBackups = backups
  /\ previous = NoPrevious
  /\ pending \in PendingFiles
  /\ invalidDir = <<>>
  /\ updatesResult = NotCalled
  /\ startPending = pending

\* The part of validateAndCleanUpdates after updates.forEach: the pending file
\* is rewritten, the invalid updates are archived
writeUpdates(acc) ==
  IF acc.threw
    THEN /\ updatesResult' = [NotCalled EXCEPT !.state = "threw"]
         /\ UNCHANGED <<pending, invalidDir>>
    ELSE /\ pending' = [kind |-> "json", updates |-> jsonUpdates(acc.valid)]
         /\ invalidDir' = IF acc.invalid # <<>> THEN Append(invalidDir, acc.invalid)
                                                ELSE invalidDir
         /\ updatesResult' = [state |-> "returned", valid |-> Len(acc.valid),
                               invalid |-> Len(acc.invalid), cleaned |-> acc.valid]

\* validateAndCleanUpdates()
ValidateAndCleanUpdates ==
  /\ updatesResult.state = "idle"
  /\ startPending' = pending
  /\ IF pending.kind = "missing"
       THEN /\ updatesResult' = [NotCalled EXCEPT !.state = "returned"]
            /\ UNCHANGED <<pending, invalidDir>>
       ELSE IF \/ file.kind = "invalid"
               \/ file.kind = "json" /\ ~file.doc.hasLocations
               \/ pending.kind = "invalid"
         THEN /\ updatesResult' = [NotCalled EXCEPT !.state = "threw"]
              /\ UNCHANGED <<pending, invalidDir>>
         ELSE writeUpdates(forEachUpdate(pending.updates,
                                         IF file.kind = "missing" THEN <<>>
                                         ELSE validLocations(file.doc),
                                         isoNow,
                                         [valid |-> <<>>, invalid |-> <<>>, threw |-> FALSE]))
  /\ UNCHANGED <<config, file, backups, report, pc, data, results, metrics, parsed,
                 outcome, exitCode, runs, startFile, startBackups, previous>>

UpdatesNext == ValidateAndCleanUpdates

UpdatesSpec == UpdatesInit /\ [][UpdatesNext]_vars


---------------------------------------------------------------------------
(* Properties. A run has processed its dataset once processData returned:  *)
(* the slots of data are the stored slots, those of startFile the inputs.  *)

Processed == pc \in {"report", "cleanup", "done"}

inputSlot(i, type) == startFile.doc.locations[i].slots[type]
storedSlot(i, type) == data.locations[i].slots[type]
SlotsOf(doc) == {<<i, type>> : i \in 1..Len(doc.locations), type \in VehicleTypes}

\* a <= b on the numbers the two values stand for
NumLe(a, b) ==
  /\ ToNumber(a).t # "nan"
  /\ ToNumber(b).t # "nan"
  /\ ~NumLt(ToNumber(b), ToNumber(a))

\* C1: after processVehicleType has processed a slot, the stored values
\* satisfy 0 <= available <= total, whatever the input pair and the force
\* flag.
C1_StoredSlotInvariant ==
  Processed =>
    \A x \in SlotsOf(data) :
      /\ NumLe(Zero, storedSlot(x[1], x[2]).available)
      /\ NumLe(storedSlot(x[1], x[2]).available, storedSlot(x[1], x[2]).total)

\* The update counter a statistics block carries, 0 when it has none
counterOf(statistics) == JsOr(statistics.perfUpdateCount, Zero)

\* C2: a successful run that saves its dataset persists an update counter
\* equal to the counter of the statistics block the run started from (0 if
\* absent) plus exactly 1.
C2_CounterIncrementsByOne ==
  (Processed /\ ~config.dryRun) =>
    file.doc.statistics.perfUpdateCount
      = NumAdd(ToNumber(counterOf(startFile.doc.statistics)), Num(1))

\* The numeric sum of the field (total or available) of the type's stored
\* slots over the locations from the i-th on
RECURSIVE sumOfSlots(_, _, _, _)
sumOfSlots(locations, type, field, i) ==
  IF i > Len(locations) THEN Zero
  ELSE NumAdd(ToNumber(locations[i].slots[type][field]),
              sumOfSlots(locations, type, field, i + 1))

sumOfTypes(p) == NumAdd(NumAdd(ToNumber(p.bus), ToNumber(p.mobil)), ToNumber(p.motor))

\* (capacity - available) / capacity * 100 to one decimal when capacity > 0,
\* and 0 otherwise
guardedUtilization(capacity, available) ==
  IF JsGt(capacity, Zero) THEN toFixed1(utilizationOf(capacity, available))
  ELSE toFixed1(ZeroRatio)

\* C3: after a run, per type the statistics capacity and available are the
\* sums of the stored slots' totals and availables over all locations, the
\* grand totals are the sums over the three types, and each utilization is
\* (capacity - available) / capacity * 100 when capacity > 0 and 0 otherwise.
C3_StatisticsAreSums ==
  Processed =>
    /\ \A type \in VehicleTypes :
         /\ data.statistics.capacity[type]
              = sumOfSlots(data.locations, type, "total", 1)
         /\ data.statistics.available[type]
              = sumOfSlots(data.locations, type, "available", 1)
         /\ data.statistics.utilization[type]
              = guardedUtilization(data.statistics.capacity[type],
                                   data.statistics.available[type])
    /\ data.statistics.capacity.total = sumOfTypes(data.statistics.capacity)
    /\ data.statistics.available.total = sumOfTypes(data.statistics.available)
    /\ data.statistics.utilization.overall
         = guardedUtilization(data.statistics.capacity.total,
                              data.statistics.available.total)

ScenarioAB == startFile.doc.locations \in {<<LocationA, LocationB>>, <<LocationB, LocationA>>}

\* C4, as stated: for the dataset of locations A {bus:{10,3}, mobil:{20,10},
\* motor:{30,20}} and B {bus:{5,2}, mobil:{15,5}, motor:{25,15}} a run yields
\* bus capacity 15, bus available 5 and overall utilization
\* (90 - 55) / 90 * 100, written 38.9.
C4_AsStated ==
  (Processed /\ ScenarioAB) =>
    /\ data.statistics.capacity.bus = Num(15)
    /\ data.statistics.available.bus = Num(5)
    /\ data.statistics.capacity.total = Num(90)
    /\ data.statistics.available.total = Num(55)
    /\ data.statistics.utilization.overall = Str(<<"3", "8", ".", "9">>)

\* C4, amended: for that dataset a run yields bus capacity 15, bus available
\* 5, total capacity 105 (60 for A and 45 for B), total available 55 and
\* overall utilization (105 - 55) / 105 * 100, written 47.6; a run that
\* saves persists these statistics.
C4_ScenarioStatistics ==
  (Processed /\ ScenarioAB) =>
    /\ data.statistics.capacity.bus = Num(15)
    /\ data.statistics.available.bus = Num(5)
    /\ data.statistics.capacity.total = Num(105)
    /\ data.statistics.available.total = Num(55)
    /\ data.statistics.utilization.overall = Str(<<"4", "7", ".", "6">>)
    /\ ~config.dryRun => file.doc.statistics = data.statistics

C4_Witness ==
  /\ pc = "done"
  /\ ScenarioAB
  /\ data.statistics.capacity.bus = Num(15)
  /\ data.statistics.utilization.overall = Str(<<"4", "7", ".", "6">>)

\* The orders a dataset's locations can be given in
Permutations(locations) ==
  {[i \in 1..Len(locations) |-> locations[p[i]]] :
     p \in {q \in [1..Len(locations) -> 1..Len(locations)] :
              \A i, j \in 1..Len(locations) : q[i] = q[j] => i = j}}

\* this.results after processData on the given locations
aggregate(locations, cfg, t) ==
  updateResults(
    processBatches(locations,
      [locations |-> <<>>, results |-> InitialResults, metrics |-> InitialMetrics,
       threw |-> FALSE, timedOut |-> FALSE, parsed |-> {}],
      cfg, t, 0, 1).results)

sameAggregates(r, q) ==
  /\ r.totals = q.totals
  /\ r.available = q.available
  /\ r.utilization.overall = q.utilization.overall

\* C5: aggregation is order-independent: a run on any permutation of the
\* dataset's locations produces the same per-type capacity and available
\* totals, the same grand totals and the same overall utilization.
C5_OrderIndependent ==
  Processed =>
    \A locations \in Permutations(validateStructure(startFile.doc).locations) :
      sameAggregates(aggregate(locations, config, now), results)

\* C6: parseNumber returns the default 0 for null, undefined and the empty
\* string and for a value that is not numeric, and otherwise the value
\* rounded to the nearest integer and clamped to >= 0: the result is always
\* a non-negative integer, with "10" -> 10, "abc" -> 0, null -> 0, -5 -> 0.
C6_ParseNumberNonNegativeInteger ==
  \A call \in parsed :
    /\ (call.value.t \in {"null", "undefined"} \/ call.value = Str(<<>>))
         => call.result = Zero
    /\ ToNumber(call.value).t = "nan" => call.result = Zero
    /\ call.value = Str(<<"1", "0">>) => call.result = Num(10)
    /\ call.value = Num(0 - 5) => call.result = Zero
    /\ IsInteger(call.result)
    /\ ~call.result.neg

belowMinimum(v) == JsLt(v, minCapacityValue)
aboveMaximum(v) == JsGt(v, maxCapacityValue)

outOfRangeSlots ==
  {x \in SlotsOf(startFile.doc) :
     \/ belowMinimum(inputSlot(x[1], x[2]).total)
     \/ aboveMaximum(inputSlot(x[1], x[2]).total)}

\* The issues recorded over the run that carry one of the tags
issuesTagged(tags) ==
  UNION {{<<i, j>> : j \in {k \in 1..Len(results.issues[i].issues) :
                              results.issues[i].issues[k] \in tags}} :
         i \in 1..Len(results.issues)}

\* C8: whenever a slot's input total lies outside [minCapacity, maxCapacity]
\* (below the minimum, -5 included, or above the maximum) an issue is
\* recorded for that slot, with force on or off: a run records as many
\* capacity issues as its dataset has slots with an out-of-range total.
C8_OutOfRangeAlwaysIssue ==
  Processed =>
    Cardinality(issuesTagged({"below minimum", "exceeds maximum"}))
      = Cardinality(outOfRangeSlots)

\* C9: an out-of-range total is corrected exactly when force is enabled:
\* with force on a total below minCapacity is stored as minCapacity and one
\* above maxCapacity as maxCapacity; with force off the stored total keeps
\* its input value.
C9_CorrectedExactlyWhenForced ==
  Processed =>
    \A x \in outOfRangeSlots :
      storedSlot(x[1], x[2]).total =
        IF ~config.force THEN inputSlot(x[1], x[2]).total
        ELSE IF belowMinimum(inputSlot(x[1], x[2]).total) THEN minCapacityValue
        ELSE maxCapacityValue

\* C10: for both settings of force, a slot whose input available is negative
\* ends with stored available 0 and a slot whose input available exceeds its
\* total ends with stored available equal to its stored total, and an issue
\* is recorded for its location.
C10_AvailableCorrectedUnconditionally ==
  Processed =>
    \A x \in SlotsOf(startFile.doc) :
      /\ JsLt(inputSlot(x[1], x[2]).available, Zero) =>
           /\ storedSlot(x[1], x[2]).available = Zero
           /\ data.locations[x[1]].validationIssues > 0
      /\ JsGt(inputSlot(x[1], x[2]).available, inputSlot(x[1], x[2]).total) =>
           /\ storedSlot(x[1], x[2]).available = storedSlot(x[1], x[2]).total
           /\ data.locations[x[1]].validationIssues > 0

\* C11: the mode option governs whether out-of-range capacity violations
\* are corrected: under mode=fix an out-of-range total is stored as the bound
\* it passed, under mode=strict it keeps its input value.
C11_ModeGovernsCorrection ==
  Processed =>
    \A x \in outOfRangeSlots :
      storedSlot(x[1], x[2]).total =
        IF config.mode = "strict" THEN inputSlot(x[1], x[2]).total
        ELSE IF belowMinimum(inputSlot(x[1], x[2]).total) THEN minCapacityValue
        ELSE maxCapacityValue

\* The data file the run started from cannot be loaded: it is missing, not
\* JSON, or lacks the required members
fatalInput == startFile.kind # "json" \/ structureErrors(startFile.doc) # <<>>

mentions(error, fragment) == \E i \in 1..Len(error) : error[i] = fragment

\* C12: every fatal failure of a run (missing data file, unparseable input,
\* schema failure, timeout) is caught inside validate and returned as a
\* result with success = false, and the process then exits with code 1; a
\* successful run exits with code 0; for a missing data file the error
\* message names the path of the data file.
C12_FailuresCaught ==
  /\ pc = "failed" => outcome.returned /\ ~outcome.success /\ outcome.error # <<>>
  /\ pc = "done" => outcome.returned /\ outcome.success
  /\ pc = "exited" =>
       outcome.returned /\ exitCode = (IF outcome.success THEN 0 ELSE 1)
  /\ pc \notin {"idle", "exited"} => exitCode = 0 - 1
  /\ (pc \in {"process", "report", "cleanup", "done"}) => ~fatalInput
  /\ (pc \in {"failed", "exited"} /\ fatalInput) => ~outcome.success
  /\ (pc \in {"failed", "exited"} /\ startFile.kind = "missing") =>
       mentions(outcome.error, dataPath)
  /\ mentions(outcome.error, "Processing timeout exceeded") =>
       outcome.returned /\ ~outcome.success

C12_Witness ==
  /\ pc = "exited"
  /\ exitCode = 1
  /\ startFile.kind = "missing"
  /\ outcome.returned
  /\ mentions(outcome.error, dataPath)

\* C13: loading fails with a parse error when the file is not valid JSON and
\* with a schema error, told apart from the parse error by its message, when
\* the parsed document lacks the locations array or the statistics object;
\* in both cases the run fails before any location is processed.
C13_ParseAndSchemaErrors ==
  (pc \in {"failed", "exited"}) =>
    /\ startFile.kind = "invalid" =>
         /\ ~outcome.success
         /\ mentions(outcome.error, "Invalid JSON format: ")
         /\ ~mentions(outcome.error, "Data structure validation failed:")
         /\ metrics.locationsProcessed = 0 /\ parsed = {}
    /\ (startFile.kind = "json" /\ ~startFile.doc.hasLocations) =>
         /\ ~outcome.success
         /\ mentions(outcome.error, "Data structure validation failed:")
         /\ mentions(outcome.error, "locations")
         /\ ~mentions(outcome.error, "Invalid JSON format: ")
         /\ metrics.locationsProcessed = 0 /\ parsed = {}
    /\ (startFile.kind = "json" /\ ~startFile.doc.statistics.present) =>
         /\ ~outcome.success
         /\ mentions(outcome.error, "Data structure validation failed:")
         /\ mentions(outcome.error, "statistics")
         /\ ~mentions(outcome.error, "Invalid JSON format: ")
         /\ metrics.locationsProcessed = 0 /\ parsed = {}

C13_Witness ==
  /\ pc = "failed"
  /\ startFile.kind = "json"
  /\ startFile.doc.locations # <<>>
  /\ ~startFile.doc.statistics.present
  /\ outcome.error = <<"Data structure validation failed:", "statistics">>
  /\ metrics.locationsProcessed = 0

runTimedOut == mentions(outcome.error, "Processing timeout exceeded")

\* C14: when the elapsed time exceeds maxProcessingTime at the check after a
\* batch, the run fails with the timeout error and nothing is persisted: the
\* statistics block is not updated and the data file is not written, however
\* many batches were processed before.
C14_TimeoutPersistsNothing ==
  (pc \in {"failed", "exited"} /\ runTimedOut) =>
    /\ ~outcome.success
    /\ file = startFile
    /\ data.statistics = startFile.doc.statistics
    /\ metrics.locationsProcessed >= 1

C14_Witness ==
  /\ pc = "failed"
  /\ runTimedOut
  /\ ~config.dryRun
  /\ metrics.locationsProcessed = 1
  /\ Len(data.locations) = 2
  /\ data.locations[1].lastValidated = now
  /\ file = startFile

\* The backup file this run wrote, and the backup directory as cleanup
\* found it: the files of the start of the run and this run's backup
thisBackup == [mtime |-> now, content |-> startFile, keep |-> TRUE]
dirBeforeCleanup == startBackups \o (IF results.backup THEN <<thisBackup>> ELSE <<>>)

filesOf(dir) == {dir[i] : i \in 1..Len(dir)}
removedFiles == filesOf(dirBeforeCleanup) \ filesOf(backups)

\* C15, as stated: after the cleanup of a completed non-dry run with
\* max-backups = N the backup directory keeps exactly the N most recently
\* modified backup files, and given N + 3 backup files exactly the 3 oldest
\* of them are removed after the run.
C15_AsStated ==
  (pc = "done" /\ ~config.dryRun) =>
    /\ Len(backups) = IF Len(dirBeforeCleanup) < config.maxBackups
                        THEN Len(dirBeforeCleanup) ELSE config.maxBackups
    /\ Len(startBackups) = config.maxBackups + 3 =>
         Cardinality(filesOf(startBackups) \ filesOf(backups)) = 3

\* C15, amended: after the cleanup of a completed non-dry run with
\* max-backups = N the backup directory keeps exactly the N most recently
\* modified backup files (all of them when there are fewer), this run's own
\* backup counted among them, and every older one is deleted; of N + 3
\* backup files found by cleanup exactly the 3 oldest are removed.
C15_BackupRetention ==
  (pc = "done" /\ ~config.dryRun) =>
    /\ filesOf(backups) \subseteq filesOf(dirBeforeCleanup)
    /\ Cardinality(filesOf(backups)) = Len(backups)
    /\ Len(backups) = IF Len(dirBeforeCleanup) < config.maxBackups
                        THEN Len(dirBeforeCleanup) ELSE config.maxBackups
    /\ \A kept \in filesOf(backups) : \A removed \in removedFiles :
         kept.mtime > removed.mtime
    /\ Len(dirBeforeCleanup) = config.maxBackups + 3 =>
         Cardinality(removedFiles) = 3

C15_Witness ==
  /\ pc = "done"
  /\ ~config.dryRun
  /\ Len(dirBeforeCleanup) = config.maxBackups + 3
  /\ Len(backups) = config.maxBackups
  /\ Cardinality(removedFiles) = 3

\* C16: in a non-dry run with the backup step enabled the backup file is
\* written before the dataset is loaded, mutated or written back, and its
\* content is the data file's content at the start of the run; in dry-run
\* mode no backup is written.
C16_BackupBeforeMutation ==
  /\ pc = "backup" => file = startFile /\ data = NoDocument /\ backups = startBackups
  /\ (pc = "load" /\ config.backup /\ ~config.dryRun) =>
       /\ backups = Append(startBackups, thisBackup)
       /\ file = startFile
       /\ data = NoDocument
  /\ (pc \in {"process", "report", "cleanup", "done"} /\ config.backup /\ ~config.dryRun) =>
       /\ results.backup
       /\ thisBackup \in filesOf(backups)
  /\ (config.dryRun \/ ~config.backup) =>
       /\ ~results.backup
       /\ \A f \in filesOf(backups) : f.mtime < 1

C16_Witness ==
  /\ pc = "done"
  /\ config.backup
  /\ ~config.dryRun
  /\ file # startFile
  /\ thisBackup \in filesOf(backups)
  /\ runs = 1

\* The characters of a location name of the datasets the updates are checked against
nameChars(name) ==
  CASE name = "A" -> <<"A">>
    [] name = "B" -> <<"B">>
    [] name = " B " -> <<" ", "B", " ">>

isLocationName(id, f) ==
  /\ id.t = "string"
  /\ f.kind = "json"
  /\ \E i \in 1..Len(f.doc.locations) : nameChars(f.doc.locations[i].name) = id.s

nonNegativeNumberIfPresent(v) == v = Undef \/ (v.t = "number" /\ ~v.neg)

\* The validity of a pending update as the contract states it
statedValid(u, f) ==
  /\ isLocationName(u.location_id, f)
  /\ u.petugas_name.t = "string" /\ u.petugas_name.s # <<>>
  /\ nonNegativeNumberIfPresent(u.bus)
  /\ nonNegativeNumberIfPresent(u.mobil)
  /\ nonNegativeNumberIfPresent(u.motor)
  /\ u.timestamp = Undef \/ validDate(u.timestamp)

normalized(list) == jsonUpdates([i \in 1..Len(list) |-> cleanedUpdate(list[i], isoNow)])
archived == IF invalidDir = <<>> THEN <<>> ELSE invalidDir[Len(invalidDir)]

\* C17: validateAndCleanUpdates keeps a pending update exactly when its
\* location_id is a string equal to the name of a location of the parking
\* dataset, its petugas_name is a non-empty string, each of bus, mobil and
\* motor that is present is a non-negative number and its timestamp, if
\* present, is parseable; the valid updates are rewritten normalized to the
\* pending file, all others are archived with their errors.
C17_UpdateKeptExactlyWhenValid ==
  (updatesResult.state = "returned" /\ startPending.kind = "json") =>
    /\ pending.updates =
         normalized(SelectSeq(startPending.updates, LAMBDA u : statedValid(u, file)))
    /\ [i \in 1..Len(archived) |-> archived[i].original] =
         SelectSeq(startPending.updates, LAMBDA u : ~statedValid(u, file))
    /\ \A i \in 1..Len(archived) : archived[i].errors # <<>>

nonNegativeInteger(v) == IsInteger(v) /\ ~v.neg

\* The parsed pair of an input slot needs no correction
inRange(slot) ==
  /\ NumLe(minCapacityValue, parseNumber(slot.total, Zero))
  /\ NumLe(parseNumber(slot.total, Zero), maxCapacityValue)
  /\ NumLe(parseNumber(slot.available, Zero), parseNumber(slot.total, Zero))

\* C18: after a successful run every location has, for every configured
\* vehicle type, a well-formed slot whose total and available are both
\* non-negative integers: a slot missing in the input is the zero-filled
\* slot {total: 0, available: 0}, and present values are stored as their
\* safe-parsed integers.
C18_WellFormedSlots ==
  pc = "done" =>
    \A x \in SlotsOf(data) :
      /\ storedSlot(x[1], x[2]).obj
      /\ nonNegativeInteger(storedSlot(x[1], x[2]).total)
      /\ nonNegativeInteger(storedSlot(x[1], x[2]).available)
      /\ SlotFalsy(inputSlot(x[1], x[2])) => storedSlot(x[1], x[2]) = ZeroSlot
      /\ (inputSlot(x[1], x[2]).obj /\ inRange(inputSlot(x[1], x[2]))) =>
           /\ storedSlot(x[1], x[2]).total = parseNumber(inputSlot(x[1], x[2]).total, Zero)
           /\ storedSlot(x[1], x[2]).available =
                parseNumber(inputSlot(x[1], x[2]).available, Zero)

\* The slot processBatch is given: the input slot as validateStructure leaves it
structuredSlot(i, type) ==
  IF SlotFalsy(inputSlot(i, type)) THEN ZeroSlot ELSE inputSlot(i, type)

\* The number of issues processVehicleType records for the i-th location
issuesRecorded(i) ==
  Len(processVehicleType(structuredSlot(i, "bus"), config.force).issues)
  + Len(processVehicleType(structuredSlot(i, "mobil"), config.force).issues)
  + Len(processVehicleType(structuredSlot(i, "motor"), config.force).issues)

\* The batch loop of this run over the same input, cut into batches of b
rerun(b) ==
  processBatches(validateStructure(startFile.doc).locations,
    [locations |-> <<>>, results |-> [InitialResults EXCEPT !.backup = results.backup],
     metrics |-> InitialMetrics, threw |-> FALSE, timedOut |-> FALSE, parsed |-> {}],
    [config EXCEPT !.batchSize = b], now, 0, 1)

\* The batch loop of this run has ended without a timeout
ranWithoutTimeout ==
  \/ Processed
  \/ pc = "failed" /\ mentions(outcome.error, "Assignment to constant variable.")

everyLocationOnce ==
  /\ Len(data.locations) = Len(startFile.doc.locations)
  /\ metrics.locationsProcessed = Len(data.locations)
  /\ \A i \in 1..Len(data.locations) :
       /\ data.locations[i].name = startFile.doc.locations[i].name
       /\ data.locations[i].lastValidated = now
       /\ data.locations[i].validationIssues = issuesRecorded(i)
  /\ \A b \in 1..(MaxLocations + 1) :
       /\ rerun(b).locations = data.locations
       /\ rerun(b).metrics = metrics
       /\ updateResults(rerun(b).results) = results

\* C19: for every batch size >= 1, a run that does not time out processes
\* every location exactly once, in input order: at the end locationsProcessed
\* is the number of locations and every location carries lastValidated and
\* validationIssues equal to the number of issues recorded for it, so the
\* results do not depend on the batch size.
C19_EveryLocationOnce == ranWithoutTimeout => everyLocationOnce

\* C20: the data file is overwritten only in runs that end successfully:
\* whenever validate returns success = false (exit code 1), for whatever
\* failing step, the content of the data file is its content at the start
\* of the run.
C20_FailedRunKeepsDataFile ==
  (outcome.returned /\ ~outcome.success) => file = startFile

\* The slot processVehicleType leaves when it is applied once more, under
\* the same configuration, to the slot it has stored
reprocessed(i, type) == processVehicleType(storedSlot(i, type), config.force)

\* C21: slot processing is idempotent: processVehicleType applied, under the
\* same configuration, to a slot it has already processed leaves the stored
\* total and available unchanged, so a second run over the persisted output
\* of a first run changes no slot value.
C21_SlotProcessingIdempotent ==
  /\ Processed =>
       \A x \in SlotsOf(data) :
         /\ ~reprocessed(x[1], x[2]).threw
         /\ reprocessed(x[1], x[2]).slot = storedSlot(x[1], x[2])
  /\ (Processed /\ ~config.dryRun /\ previous.valid /\ previous.success) =>
       \A x \in SlotsOf(data) : storedSlot(x[1], x[2]) = inputSlot(x[1], x[2])

\* The slots of the input dataset that are present but are not objects
scalarSlots ==
  IF fatalInput THEN {}
  ELSE {x \in SlotsOf(startFile.doc) :
          ~inputSlot(x[1], x[2]).obj /\ ~SlotFalsy(inputSlot(x[1], x[2]))}

\* C22: when a slot value is present but is not an object, processVehicleType
\* replaces it with the zero-filled slot {total: 0, available: 0}, records
\* the 'Created missing data structure' fix, and the run continues to a
\* successful end: it does not fail on that slot.
C22_ScalarSlotRepaired ==
  scalarSlots # {} =>
    /\ ~mentions(outcome.error, "Assignment to constant variable.")
    /\ Processed => \A x \in scalarSlots : storedSlot(x[1], x[2]) = ZeroSlot

=============================================================================
